---- MODULE Spec2Model ----
(***************************************************************************)
(* The chat message handler of the MDnexa backend (router.post('/message') *)
(* in src/unnamed/part_000), its usage gate, its persistence block, and    *)
(* the generation orchestrator it calls (utils/robustGemini, which is not  *)
(* among the sources and is modelled from the specification).              *)
(*                                                                         *)
(* One request is one slot of req; every await of the handler is one step. *)
(* The store client resolves every call to a result {data, error}: the     *)
(* handler reads failures from the error field (lines 148-159, and lines   *)
(* 13-20, 33-39), and the usage read relies on a read that finds no row    *)
(* resolving with data = null (lines 188-194).                             *)
(***************************************************************************)
EXTENDS Integers, Sequences, FiniteSets, TLC

NULL == "null"

\* An absent value (null data, no row, nothing generated yet) is the empty
\* tuple, a present one the tuple of it.
None == <<>>

Some(x) == <<x>>

\* ------------------------------------------------------------- bounds
\* Concurrent requests in flight.
MaxRequests == 2
\* Requests of one user the usage gate lets through in one run.
MaxAllowed == 6
\* Requests of a run that carry an authenticated user and a sessionId. A run
\* is of a client that sends a sessionId with every authenticated request, or
\* with none (sendsSession).
MaxSessionTurns == 2
\* Rows the usage table can hold (reached only when user_id is not unique).
MaxUsageRows == 2
\* The fallback chain: endpoints, and the retry budget of the first and of
\* the other endpoints.
NumEndpoints == 2
PrimaryRetries == 2
FallbackRetries == 1

\* ------------------------------------------------------------- constants
\* if (currentCount >= 5)
FreeLimit == 5

Slots == 1..MaxRequests

VARIABLES
    req,             \* per slot: the handler's position and locals
    sendsSession,    \* whether this run's client sends sessionIds
    sessionTurns,    \* requests started with a user and a sessionId
    question_usage,  \* table question_usage: sequence of rows
    usageKeyed,      \* whether the table rejects a second row of a user_id
    chat_sessions,   \* table chat_sessions: id -> row, for the ids it holds
    chat_messages,   \* table chat_messages: sequence of rows
    allowed,         \* requests the usage gate has let through, per user id
    overlap,         \* gated user ids of which two requests were in flight at once
    genScript,       \* orchestrator run: what each attempt will answer
    genOut           \* orchestrator run: its outcome

vars == <<req, sendsSession, sessionTurns, question_usage, usageKeyed, chat_sessions,
          chat_messages, allowed, overlap, genScript, genOut>>

handlerVars == <<req, sendsSession, sessionTurns, question_usage, usageKeyed,
                 chat_sessions, chat_messages, allowed, overlap>>

\* ------------------------------------------------------------- identities
\* The authenticated user object returned by supabase.auth.getUser, with the
\* three role fields the handler reads from it.
AuthUser(id) ==
    [id |-> id,
     role |-> "authenticated",
     user_metadata_role |-> NULL,
     app_metadata_role |-> IF id = "u3" THEN "admin" ELSE NULL]

\* The row of table profiles of a user: its role field.
Profile(id) == [role |-> IF id = "u2" THEN "admin" ELSE "user"]

UserIds == {"u1", "u2", "u3"}

SessionIds == {"s1", "s2"}

\* The histories a request body carries, as the roles of their messages.
Histories == {<<>>, <<"model">>, <<"user", "model">>}

\* const allRoles = [profile?.role, user.role, user.user_metadata?.role,
\*                   user.app_metadata?.role].filter(Boolean)
AllRoles_NoAppMetadata(id) ==
    SelectSeq(<<Profile(id).role, AuthUser(id).role,
                AuthUser(id).user_metadata_role>>,
              LAMBDA x : x # NULL)

AllRoles(id) ==
    SelectSeq(<<Profile(id).role, AuthUser(id).role,
                AuthUser(id).user_metadata_role,
                AuthUser(id).app_metadata_role>>,
              LAMBDA x : x # NULL)

\* utils/accessControl: any one role of the list grants unlimited access.
UnlimitedRoles == {"admin"}

hasUnlimitedAccess(roles) == \E i \in DOMAIN roles : roles[i] \in UnlimitedRoles

isUnlimited(id) == hasUnlimitedAccess(AllRoles(id))

\* ------------------------------------------------------------- store client
\* What an awaited store call gives the handler: the call resolves, whatever
\* the store answered, and the failure is in the error field.
Awaited_Rejecting(res) ==
    [threw |-> res.error # NULL, data |-> res.data, error |-> res.error]

Awaited(res) == [threw |-> FALSE, data |-> res.data, error |-> res.error]

Ok(data) == [data |-> data, error |-> NULL]

Failed(code) == [data |-> None, error |-> code]

\* Rows of question_usage of one user.
UsageRowsOf(id) == SelectSeq(question_usage, LAMBDA row : row.user_id = id)

\* .from('question_usage').select('*').eq('user_id', id).single():
\* the row when there is exactly one, else an error and no data.
SelectUsageSingle(id) ==
    IF Len(UsageRowsOf(id)) = 1
    THEN Ok(Some(UsageRowsOf(id)[1]))
    ELSE Failed("PGRST116")

\* The count the handler works with: usage ? usage.questions_count : 0
CurrentCount(usage) == IF usage = None THEN 0 ELSE usage[1].questions_count

\* if (currentCount >= 5)
AtLimit_Strict(count) == count > FreeLimit

AtLimit(count) == count >= FreeLimit

\* .insert([{user_id, questions_count: 1}])
InsertUsageResult(id) ==
    IF usageKeyed /\ Len(UsageRowsOf(id)) > 0 THEN Failed("23505") ELSE Ok(None)

InsertUsage(id) ==
    IF InsertUsageResult(id).error = NULL
    THEN Append(question_usage, [user_id |-> id, questions_count |-> 1])
    ELSE question_usage

\* .update({questions_count: n}).eq('user_id', id)
UpdateUsage_Atomic(id, n) ==
    [i \in DOMAIN question_usage |->
        IF question_usage[i].user_id = id
        THEN [question_usage[i] EXCEPT !.questions_count = @ + 1]
        ELSE question_usage[i]]

UpdateUsage(id, n) ==
    [i \in DOMAIN question_usage |->
        IF question_usage[i].user_id = id
        THEN [question_usage[i] EXCEPT !.questions_count = n]
        ELSE question_usage[i]]

\* ------------------------------------------------------------- orchestrator
\* utils/robustGemini is not among the sources: the fallback chain below is
\* the one the specification describes (sections 4.1 and 4.2).
Endpoints == 1..NumEndpoints

RetryBudget(e) == IF e = 1 THEN PrimaryRetries ELSE FallbackRetries

\* What one remote call can answer.
RemoteAnswers == {"ok", "timeout", "quota", "invalid", "unknown"}

\* AttemptClassifier: total, unknown shapes default to RETRY_NEXT.
classify(answer) ==
    CASE answer = "timeout" -> "RETRY_SAME"
      [] answer = "quota"   -> "RETRY_NEXT"
      [] answer = "invalid" -> "FATAL"
      [] OTHER              -> "RETRY_NEXT"

\* Every attempt the chain can make: endpoint e, attempt a of its budget.
AttemptSlots == UNION {{<<e, a>> : a \in 1..RetryBudget(e)} : e \in Endpoints}

\* What the remote capability will answer to each attempt of one run.
Scripts == [AttemptSlots -> RemoteAnswers]

\* generate: endpoints in ascending priority, each up to its retry budget;
\* success returns at once with the endpoint's identity, RETRY_SAME retries
\* the endpoint while budget is left, RETRY_NEXT advances, FATAL stops the
\* chain. calls is the list of the attempts made.
RECURSIVE RunFrom_NoShortCircuit(_, _, _, _)
RunFrom_NoShortCircuit(script, e, a, calls) ==
    IF e > NumEndpoints
    THEN [result |-> "EXHAUSTED", model |-> 0, calls |-> calls]
    ELSE LET made == Append(calls, <<e, a>>)
             class == classify(script[<<e, a>>])
         IN  IF script[<<e, a>>] = "ok"
             THEN [result |-> "OK", model |-> e, calls |-> made]
             ELSE IF class = "FATAL" /\ e = NumEndpoints
             THEN [result |-> "REJECTED", model |-> 0, calls |-> made]
             ELSE IF class = "RETRY_SAME" /\ a < RetryBudget(e)
             THEN RunFrom_NoShortCircuit(script, e, a + 1, made)
             ELSE RunFrom_NoShortCircuit(script, e + 1, 1, made)

RECURSIVE RunFrom_NoRetry(_, _, _, _)
RunFrom_NoRetry(script, e, a, calls) ==
    IF e > NumEndpoints
    THEN [result |-> "EXHAUSTED", model |-> 0, calls |-> calls]
    ELSE LET made == Append(calls, <<e, a>>)
             class == classify(script[<<e, a>>])
         IN  IF script[<<e, a>>] = "ok"
             THEN [result |-> "OK", model |-> e, calls |-> made]
             ELSE IF class = "FATAL"
             THEN [result |-> "REJECTED", model |-> 0, calls |-> made]
             ELSE RunFrom_NoRetry(script, e + 1, 1, made)

RECURSIVE RunFrom(_, _, _, _)
RunFrom(script, e, a, calls) ==
    IF e > NumEndpoints
    THEN [result |-> "EXHAUSTED", model |-> 0, calls |-> calls]
    ELSE LET made == Append(calls, <<e, a>>)
             class == classify(script[<<e, a>>])
         IN  IF script[<<e, a>>] = "ok"
             THEN [result |-> "OK", model |-> e, calls |-> made]
             ELSE IF class = "FATAL"
             THEN [result |-> "REJECTED", model |-> 0, calls |-> made]
             ELSE IF class = "RETRY_SAME" /\ a < RetryBudget(e)
             THEN RunFrom(script, e, a + 1, made)
             ELSE RunFrom(script, e + 1, 1, made)

RunChain(script) == RunFrom(script, 1, 1, <<>>)

\* The text an endpoint generates.
Answer(e) == <<"answer", e>>

\* No run made yet.
NoOut == [result |-> "NONE", model |-> 0, calls |-> <<>>]

\* What robustGemini.generateMessage can give its caller: {text, model}, or a
\* thrown EXHAUSTED or REJECTED.
GenOutcomes ==
    {[result |-> RunChain(s).result, model |-> RunChain(s).model] : s \in Scripts}

\* ------------------------------------------------------------- chat tables
\* chat_messages.session_id references chat_sessions: the store answers an
\* insert for a missing session with error 23503 (the shape line 319 tests).
InsertMessageResult_NoForeignKey(sid) == [data |-> None, error |-> NULL]

InsertMessageResult(sid) ==
    IF sid \notin DOMAIN chat_sessions THEN Failed("23503") ELSE Ok(None)

MessageRow(r, role) ==
    [session_id |-> req[r].sessionId, user_id |-> req[r].user, role |-> role,
     turn |-> req[r].turn]

\* dbError.code === '23503' || message includes 'foreign key' || details
\* include 'is not present in table "chat_sessions"'
IsMissingSession(error) == error = "23503"

\* .from('chat_sessions').update(fields).eq('id', sid): no row, no change.
UpdateSession(sid, field, value) ==
    IF sid \notin DOMAIN chat_sessions
    THEN chat_sessions
    ELSE [chat_sessions EXCEPT ![sid] = [@ EXCEPT ![field] = value]]

\* new Date().toLocaleString('en-US', {month, day, hour, minute})
TimestampTitle == "timestamp"

\* history.map(...), then the leading model messages are shifted away.
FormattedHistory_NoShift(history) == history

RECURSIVE FormattedHistory(_)
FormattedHistory(history) ==
    IF Len(history) > 0 /\ history[1] # "user"
    THEN FormattedHistory(Tail(history))
    ELSE history

\* ------------------------------------------------------------- the handler
\* {text: responseText, model: usedModel} before generation has returned.
NoGen == [text |-> None, model |-> 0]

\* No response sent yet.
NoResponse == [status |-> 0, error |-> NULL, text |-> None, model |-> 0]

IdleReq ==
    [pc |-> "idle", user |-> NULL, sessionId |-> NULL, history |-> <<>>,
     turn |-> 0, usage |-> None, gen |-> NoGen, attempt |-> 0, creates |-> 0,
     missing |-> FALSE, persistenceSuccess |-> FALSE, response |-> NoResponse]

InFlight(q) == req[q].pc # "idle"

\* res.json({text: responseText, model: usedModel})
OkResponse(gen) ==
    [status |-> 200, error |-> NULL, text |-> gen.text, model |-> gen.model]

\* res.status(403).json({error: 'LIMIT_REACHED', ...})
LimitResponse ==
    [status |-> 403, error |-> "LIMIT_REACHED", text |-> None, model |-> 0]

\* The outer catch: res.status(500).json({error: error.message, ...})
ErrorResponse(error) ==
    [status |-> 500, error |-> error, text |-> None, model |-> 0]

\* The handler returns: the response is with the caller and the request's
\* inputs and locals are gone. The slot keeps what the turn came to (its
\* number, whether an insert met a missing session, the session creations,
\* the attempt and persistenceSuccess) until the next request takes it.
RespondAfter(r, response, success, sawMissing) ==
    req' = [req EXCEPT ![r] =
              [IdleReq EXCEPT !.response = response, !.turn = req[r].turn,
                              !.missing = sawMissing, !.creates = req[r].creates,
                              !.attempt = req[r].attempt,
                              !.persistenceSuccess = success]]

Respond(r, response) ==
    RespondAfter(r, response, req[r].persistenceSuccess, req[r].missing)

Init ==
    /\ req = [r \in Slots |-> IdleReq]
    /\ sendsSession \in BOOLEAN
    /\ sessionTurns = 0
    /\ question_usage = <<>>
    /\ usageKeyed \in BOOLEAN
    /\ chat_sessions = [sid \in {"s1"} |->
                          [user_id |-> "u2", title |-> "original",
                           updated_at |-> "created"]]
    /\ chat_messages = <<>>
    /\ allowed = [u \in UserIds |-> 0]
    /\ overlap = {}
    /\ genScript = NULL
    /\ genOut = NoOut

\* Requests of user u that have not yet passed or been refused by the gate.
AtGate(u) == {q \in Slots : req[q].user = u /\ req[q].pc \in {"usage_read", "usage_write"}}

\* Lines 122-186: the request arrives, the token gives the user (or none: a
\* guest), the profile is fetched and isUnlimited computed. The history is
\* drawn for the requests that reach the persistence block, which is where
\* the handler looks at its length. The client that sends session ids is used
\* by a gated user, a privileged user and guests.
Start(r) ==
    /\ ~InFlight(r)
    /\ \E u \in UserIds \cup {NULL}, sid \in SessionIds \cup {NULL}, h \in Histories :
          LET gated == u # NULL /\ ~isUnlimited(u)
              persists == u # NULL /\ sid # NULL
          IN  /\ persists => sessionTurns < MaxSessionTurns
              /\ ~persists => h = <<>>
              /\ sid # NULL <=> sendsSession
              /\ sendsSession => u # "u2"
              /\ gated => allowed[u] + Cardinality(AtGate(u)) < MaxAllowed
              /\ req' = [req EXCEPT ![r] =
                           [IdleReq EXCEPT
                              !.pc = IF gated THEN "usage_read" ELSE "generate",
                              !.user = u, !.sessionId = sid, !.history = h,
                              !.turn = IF persists THEN sessionTurns + 1 ELSE 0]]
              /\ sessionTurns' = IF persists THEN sessionTurns + 1 ELSE sessionTurns
              /\ overlap' = IF gated /\ \E q \in Slots \ {r} :
                                           InFlight(q) /\ req[q].user = u
                            THEN overlap \cup {u} ELSE overlap
    /\ UNCHANGED <<sendsSession, question_usage, usageKeyed, chat_sessions,
                   chat_messages, allowed, genScript, genOut>>

\* Lines 188-201: read the usage row, refuse at the limit.
UsageRead(r) ==
    /\ req[r].pc = "usage_read"
    /\ LET got == Awaited(SelectUsageSingle(req[r].user))
       IN  IF got.threw
           THEN Respond(r, ErrorResponse(got.error))
           ELSE IF AtLimit(CurrentCount(got.data))
           THEN Respond(r, LimitResponse)
           ELSE req' = [req EXCEPT ![r].pc = "usage_write", ![r].usage = got.data]
    /\ UNCHANGED <<sendsSession, sessionTurns, question_usage, usageKeyed,
                   chat_sessions, chat_messages, allowed, overlap, genScript,
                   genOut>>

\* Lines 203-210: insert the first row, or update the row to the count read
\* plus one. The result of the write is not looked at.
UsageWrite(r) ==
    /\ req[r].pc = "usage_write"
    /\ LET u == req[r].user
           res == IF req[r].usage = None THEN InsertUsageResult(u) ELSE Ok(None)
       IN  /\ (req[r].usage = None /\ res.error = NULL)
                 => Len(question_usage) < MaxUsageRows
           /\ question_usage' =
                 IF req[r].usage = None
                 THEN InsertUsage(u)
                 ELSE UpdateUsage(u, CurrentCount(req[r].usage) + 1)
           /\ IF Awaited(res).threw
              THEN /\ Respond(r, ErrorResponse(res.error))
                   /\ UNCHANGED allowed
              ELSE /\ req' = [req EXCEPT ![r].pc = "generate"]
                   /\ allowed' = [allowed EXCEPT ![u] = @ + 1]
    /\ UNCHANGED <<sendsSession, sessionTurns, usageKeyed, chat_sessions,
                   chat_messages, overlap, genScript, genOut>>

\* Lines 264-283 and 351: robustGemini.generateMessage; a thrown failure goes
\* to the outer catch, a result goes on to persistence when there is a user
\* and a sessionId, else straight to the response.
Generate_Refund(r) ==
    /\ req[r].pc = "generate"
    /\ \E o \in GenOutcomes :
          IF o.result = "OK"
          THEN LET gen == [text |-> Answer(o.model), model |-> o.model]
               IN  /\ IF req[r].user # NULL /\ req[r].sessionId # NULL
                      THEN req' = [req EXCEPT ![r].pc = "persist_user",
                                              ![r].gen = gen, ![r].attempt = 1]
                      ELSE Respond(r, OkResponse(gen))
                   /\ UNCHANGED question_usage
          ELSE /\ Respond(r, ErrorResponse(o.result))
               /\ question_usage' =
                     IF req[r].user # NULL /\ ~isUnlimited(req[r].user)
                     THEN UpdateUsage(req[r].user, CurrentCount(req[r].usage))
                     ELSE question_usage
    /\ UNCHANGED <<sendsSession, sessionTurns, usageKeyed, chat_sessions,
                   chat_messages, allowed, overlap, genScript, genOut>>

Generate(r) ==
    /\ req[r].pc = "generate"
    /\ \E o \in GenOutcomes :
          IF o.result = "OK"
          THEN LET gen == [text |-> Answer(o.model), model |-> o.model]
               IN  IF req[r].user # NULL /\ req[r].sessionId # NULL
                   THEN req' = [req EXCEPT ![r].pc = "persist_user",
                                           ![r].gen = gen, ![r].attempt = 1]
                   ELSE Respond(r, OkResponse(gen))
          ELSE Respond(r, ErrorResponse(o.result))
    /\ UNCHANGED <<sendsSession, sessionTurns, question_usage, usageKeyed,
                   chat_sessions, chat_messages, allowed, overlap, genScript,
                   genOut>>

\* Lines 315-340 and 344-351, what follows a rejected await of persistMessages:
\* on the first attempt a missing-session error leads to the just-in-time
\* creation, any other error is logged; on the retry the error is logged.
\* persistenceSuccess stays false, so no title is set and the answer is sent.
CatchPersist(r, error, sawMissing) ==
    IF req[r].attempt = 1 /\ IsMissingSession(error)
    THEN req' = [req EXCEPT ![r].pc = "jit_create", ![r].missing = sawMissing]
    ELSE RespondAfter(r, OkResponse(req[r].gen), req[r].persistenceSuccess, sawMissing)

\* One insert of persistMessages (lines 289-294, 297-302): the store appends
\* the row or answers with an error; up = FALSE is the store being
\* unavailable for this call. The result is not looked at.
InsertMessage_Twice(r, role, nextPc) ==
    \E up \in BOOLEAN :
       LET res == IF up THEN InsertMessageResult(req[r].sessionId)
                        ELSE Failed("unavailable")
           sawMissing == req[r].missing \/ IsMissingSession(res.error)
       IN  /\ chat_messages' = IF res.error = NULL
                               THEN Append(Append(chat_messages, MessageRow(r, role)),
                                           MessageRow(r, role))
                               ELSE chat_messages
           /\ IF Awaited(res).threw
              THEN CatchPersist(r, res.error, sawMissing)
              ELSE req' = [req EXCEPT ![r].pc = nextPc, ![r].missing = sawMissing]

InsertMessage(r, role, nextPc) ==
    \E up \in BOOLEAN :
       LET res == IF up THEN InsertMessageResult(req[r].sessionId)
                        ELSE Failed("unavailable")
           sawMissing == req[r].missing \/ IsMissingSession(res.error)
       IN  /\ chat_messages' = IF res.error = NULL
                               THEN Append(chat_messages, MessageRow(r, role))
                               ELSE chat_messages
           /\ IF Awaited(res).threw
              THEN CatchPersist(r, res.error, sawMissing)
              ELSE req' = [req EXCEPT ![r].pc = nextPc, ![r].missing = sawMissing]

\* Lines 288-294: save the user message.
PersistUser(r) ==
    /\ req[r].pc = "persist_user"
    /\ InsertMessage(r, "user", "persist_model")
    /\ UNCHANGED <<sendsSession, sessionTurns, question_usage, usageKeyed,
                   chat_sessions, allowed, overlap, genScript, genOut>>

\* Lines 296-302: save the AI response.
PersistModel(r) ==
    /\ req[r].pc = "persist_model"
    /\ InsertMessage(r, "model", "touch_session")
    /\ UNCHANGED <<sendsSession, sessionTurns, question_usage, usageKeyed,
                   chat_sessions, allowed, overlap, genScript, genOut>>

\* Lines 304-307, then 314 (or 333) and 344-351: touch the session's
\* updated_at; persistMessages has returned, persistenceSuccess is set, and
\* the title is set next when the formatted history is empty.
TouchSession(r) ==
    /\ req[r].pc = "touch_session"
    /\ \E up \in BOOLEAN :
          LET res == IF up THEN Ok(None) ELSE Failed("unavailable")
          IN  /\ chat_sessions' =
                    IF up THEN UpdateSession(req[r].sessionId, "updated_at", "touched")
                          ELSE chat_sessions
              /\ IF Awaited(res).threw
                 THEN CatchPersist(r, res.error, req[r].missing)
                 ELSE IF Len(FormattedHistory(req[r].history)) = 0
                 THEN req' = [req EXCEPT ![r].pc = "title",
                                         ![r].persistenceSuccess = TRUE]
                 ELSE RespondAfter(r, OkResponse(req[r].gen), TRUE, req[r].missing)
    /\ UNCHANGED <<sendsSession, sessionTurns, question_usage, usageKeyed,
                   chat_messages, allowed, overlap, genScript, genOut>>

\* Lines 344-351: set the timestamp title, then send the answer. This await
\* is outside the inner try: a rejection would reach the outer catch.
TitleUpdate(r) ==
    /\ req[r].pc = "title"
    /\ \E up \in BOOLEAN :
          LET res == IF up THEN Ok(None) ELSE Failed("unavailable")
          IN  /\ chat_sessions' =
                    IF up THEN UpdateSession(req[r].sessionId, "title", TimestampTitle)
                          ELSE chat_sessions
              /\ IF Awaited(res).threw
                 THEN Respond(r, ErrorResponse(res.error))
                 ELSE Respond(r, OkResponse(req[r].gen))
    /\ UNCHANGED <<sendsSession, sessionTurns, question_usage, usageKeyed,
                   chat_messages, allowed, overlap, genScript, genOut>>

\* Lines 319-333: create the missing session with the id at hand, then retry
\* persistMessages. It is entered from CatchPersist only, that is after a
\* rejected await: with the store client as it is (Awaited) no state enables
\* it, and it is no disjunct of Next.
JitCreateSession(r) ==
    /\ req[r].pc = "jit_create"
    /\ \E up \in BOOLEAN :
          LET res == IF ~up THEN Failed("unavailable")
                     ELSE IF req[r].sessionId \in DOMAIN chat_sessions
                     THEN Failed("23505") ELSE Ok(None)
          IN  /\ chat_sessions' =
                    IF res.error = NULL
                    THEN [sid \in DOMAIN chat_sessions \cup {req[r].sessionId} |->
                            IF sid = req[r].sessionId
                            THEN [user_id |-> req[r].user,
                                  title |-> TimestampTitle,
                                  updated_at |-> "created"]
                            ELSE chat_sessions[sid]]
                    ELSE chat_sessions
              /\ IF Awaited(res).threw
                 THEN req' = [req EXCEPT ![r] =
                                [IdleReq EXCEPT
                                   !.response = OkResponse(req[r].gen),
                                   !.turn = req[r].turn,
                                   !.missing = req[r].missing,
                                   !.creates = req[r].creates + 1,
                                   !.attempt = req[r].attempt]]
                 ELSE req' = [req EXCEPT ![r].pc = "persist_user",
                                         ![r].creates = @ + 1,
                                         ![r].attempt = 2]
    /\ UNCHANGED <<sendsSession, sessionTurns, question_usage, usageKeyed,
                   chat_messages, allowed, overlap, genScript, genOut>>

Next ==
    \E r \in Slots :
       \/ Start(r)
       \/ UsageRead(r)
       \/ UsageWrite(r)
       \/ Generate(r)
       \/ PersistUser(r)
       \/ PersistModel(r)
       \/ TouchSession(r)
       \/ TitleUpdate(r)

Spec == Init /\ [][Next]_vars

\* ------------------------------------------------------------- one orchestrator run
\* The orchestrator alone: every script of remote answers, and one run on it.
InitGen ==
    /\ req = [r \in Slots |-> IdleReq]
    /\ sendsSession = FALSE
    /\ sessionTurns = 0
    /\ question_usage = <<>>
    /\ usageKeyed = TRUE
    /\ chat_sessions = <<>>
    /\ chat_messages = <<>>
    /\ allowed = [u \in UserIds |-> 0]
    /\ overlap = {}
    /\ genScript \in Scripts
    /\ genOut = NoOut

Orchestrate ==
    /\ genOut = NoOut
    /\ genOut' = RunChain(genScript)
    /\ UNCHANGED <<handlerVars, genScript>>

NextGen == Orchestrate

SpecGen == InitGen /\ [][NextGen]_vars

\* ------------------------------------------------------------- properties
\* A role source of the identity grants unlimited access.
HasAdminSource(id) ==
    \/ Profile(id).role \in UnlimitedRoles
    \/ AuthUser(id).role \in UnlimitedRoles
    \/ AuthUser(id).user_metadata_role \in UnlimitedRoles
    \/ AuthUser(id).app_metadata_role \in UnlimitedRoles

\* The count stored for a user: that of its row, 0 without a row.
StoredCount(u) ==
    IF UsageRowsOf(u) = <<>> THEN 0 ELSE UsageRowsOf(u)[1].questions_count

\* The roles of the messages stored for turn t, in insertion order.
RECURSIVE RolesOf(_, _)
RolesOf(rows, t) ==
    IF rows = <<>> THEN <<>>
    ELSE IF Head(rows).turn = t
    THEN <<Head(rows).role>> \o RolesOf(Tail(rows), t)
    ELSE RolesOf(Tail(rows), t)

TurnRoles(t) == RolesOf(chat_messages, t)

PersistPcs == {"persist_user", "persist_model", "touch_session", "title", "jit_create"}

\* Slot r holds a turn that went through the persistence block and was answered.
AnsweredTurn(r) ==
    req[r].pc = "idle" /\ req[r].turn > 0 /\ req[r].response.status = 200

\* C1: a non-privileged identity that starts without a usage row and whose
\* requests never overlap has a stored count equal to the number of its
\* requests let through, 1 after the first, never above 5; its usage read
\* lets the request through while fewer than 5 were let through (requests 1
\* to 5) and answers LIMIT_REACHED, leaving the table as it is, once 5 were
\* (the 6th).
C1_SequentialQuota ==
    /\ [](\A u \in UserIds :
            (~HasAdminSource(u) /\ u \notin overlap) =>
               /\ Len(UsageRowsOf(u)) <= 1
               /\ StoredCount(u) = allowed[u]
               /\ allowed[u] <= FreeLimit)
    /\ [][\A r \in Slots :
            (req[r].pc = "usage_read" /\ req'[r] # req[r]
               /\ req[r].user \notin overlap) =>
               IF allowed[req[r].user] < FreeLimit
               THEN req'[r].pc = "usage_write"
               ELSE /\ req'[r].pc = "idle"
                    /\ req'[r].response = LimitResponse
                    /\ question_usage' = question_usage]_vars

\* The sixth sequential request of u1 has been refused.
C1_Witness ==
    /\ "u1" \notin overlap
    /\ allowed["u1"] = FreeLimit
    /\ StoredCount("u1") = FreeLimit
    /\ \E r \in Slots : req[r].pc = "idle" /\ req[r].response = LimitResponse

\* C2: a request of an identity one of whose role sources grants unlimited
\* access never is at the usage read or write, no step of it changes the
\* usage table, and it is never answered LIMIT_REACHED.
C2_PrivilegedUntouched ==
    /\ [](\A r \in Slots :
            (req[r].user # NULL /\ HasAdminSource(req[r].user)) =>
               req[r].pc \notin {"usage_read", "usage_write"})
    /\ [][\A r \in Slots :
            (req[r].user # NULL /\ HasAdminSource(req[r].user)
               /\ req'[r] # req[r]) =>
               /\ question_usage' = question_usage
               /\ req'[r].response.status # 403]_vars

\* A request of u3 (admin by app_metadata alone) has its answer generated
\* while the usage table holds a row.
C2_Witness ==
    /\ question_usage # <<>>
    /\ \E r \in Slots : req[r].user = "u3" /\ req[r].pc = "persist_user"

\* C3: an answered turn whose insert met a missing session has made exactly
\* one session creation and one retry, after which its two messages are
\* stored; a turn whose session existed has made no session creation.
C3_JitRecovery ==
    \A r \in Slots :
       AnsweredTurn(r) =>
          IF req[r].missing
          THEN /\ req[r].creates = 1
               /\ req[r].attempt = 2
               /\ TurnRoles(req[r].turn) = <<"user", "model">>
          ELSE req[r].creates = 0

\* C4: from the moment generation has succeeded, no step of the persistence
\* block changes the generated {text, model}, and the step that answers sends
\* exactly them with status 200.
C4_AnswerSurvivesPersistence ==
    /\ [](\A r \in Slots : req[r].pc \in PersistPcs => req[r].gen # NoGen)
    /\ [][\A r \in Slots :
            (req[r].pc \in PersistPcs /\ req'[r] # req[r]) =>
               IF req'[r].pc = "idle"
               THEN req'[r].response = OkResponse(req[r].gen)
               ELSE req'[r].gen = req[r].gen]_vars

\* A turn was answered with status 200 although its inserts were refused and
\* nothing of it is stored.
C4_Witness ==
    \E r \in Slots :
       AnsweredTurn(r) /\ req[r].missing /\ TurnRoles(req[r].turn) = <<>>

C6_TwoMessagesInOrder ==
    /\ \A r \in Slots :
          (AnsweredTurn(r) /\ req[r].persistenceSuccess) =>
             TurnRoles(req[r].turn) = <<"user", "model">>
    /\ \A t \in 1..MaxSessionTurns :
          TurnRoles(t) \in {<<>>, <<"user">>, <<"model">>, <<"user", "model">>}

\* C7: the write of the usage gate stores the count the request read plus
\* one, whatever the table holds by then, and no stored count exceeds 5: two
\* requests that both read 4 both write 5.
C7_StaleIncrement ==
    /\ [](\A i \in DOMAIN question_usage :
            question_usage[i].questions_count <= FreeLimit)
    /\ [][\A r \in Slots :
            (req[r].pc = "usage_write" /\ req'[r].pc = "generate"
               /\ req[r].usage # None) =>
               \A i \in DOMAIN question_usage' :
                  question_usage'[i].user_id = req[r].user =>
                     question_usage'[i].questions_count
                        = CurrentCount(req[r].usage) + 1]_vars

\* Six requests of u1 were let through and the stored count is 5.
C7_Witness ==
    /\ allowed["u1"] = FreeLimit + 1
    /\ Len(UsageRowsOf("u1")) = 1
    /\ StoredCount("u1") = FreeLimit

\* C8: no step lowers the count of a row of the usage table.
C8_CountNeverDecreases ==
    [][\A i \in DOMAIN question_usage :
          /\ i \in DOMAIN question_usage'
          /\ question_usage'[i].questions_count
                >= question_usage[i].questions_count]_vars

\* C9: the usage table holds at most one row per identity, a request inserts
\* a row only when the table holds none for its user, and no row is deleted.
C9_OneRowPerIdentity ==
    [][/\ \A u \in UserIds : Len(UsageRowsOf(u)') <= 1
       /\ Len(question_usage') >= Len(question_usage)
       /\ \A r \in Slots :
             (req[r].pc = "usage_write" /\ req'[r] # req[r]
                /\ req[r].usage = None) =>
                UsageRowsOf(req[r].user) = <<>>]_vars

\* C10: a run whose first attempt on the first endpoint is answered with a
\* FATAL-classified error makes that one call and no other, and fails with
\* REJECTED.
C10_FatalShortCircuit ==
    (genOut # NoOut /\ classify(genScript[<<1, 1>>]) = "FATAL") =>
       /\ genOut.calls = << <<1, 1>> >>
       /\ genOut.result = "REJECTED"

\* A run has ended whose first answer was the FATAL-classified one.
C10_Witness ==
    /\ genOut # NoOut
    /\ genScript[<<1, 1>>] = "invalid"
    /\ genOut.result = "REJECTED"

\* The sum of the retry budgets of endpoints 1..e.
RECURSIVE BudgetSum(_)
BudgetSum(e) == IF e = 0 THEN 0 ELSE RetryBudget(e) + BudgetSum(e - 1)

\* Every endpoint exhausts its retries without success: each attempt before
\* the last of its budget asks for a retry on the same endpoint, and the last
\* one neither succeeds nor is FATAL.
AllExhaust(script) ==
    \A e \in Endpoints :
       /\ \A a \in 1..(RetryBudget(e) - 1) : classify(script[<<e, a>>]) = "RETRY_SAME"
       /\ script[<<e, RetryBudget(e)>>] # "ok"
       /\ classify(script[<<e, RetryBudget(e)>>]) # "FATAL"

\* C11: a run in which every endpoint exhausts its retries without success
\* fails with EXHAUSTED, has made as many attempts as the sum of the retry
\* budgets, and has tried the endpoints in ascending order, each attempt of an
\* endpoint in turn.
C11_ExhaustedAfterAllBudgets ==
    (genOut # NoOut /\ AllExhaust(genScript)) =>
       /\ genOut.result = "EXHAUSTED"
       /\ Len(genOut.calls) = BudgetSum(NumEndpoints)
       /\ \A i \in 1..(Len(genOut.calls) - 1) :
             \/ genOut.calls[i][1] < genOut.calls[i + 1][1]
             \/ /\ genOut.calls[i][1] = genOut.calls[i + 1][1]
                /\ genOut.calls[i][2] < genOut.calls[i + 1][2]

\* A run has ended EXHAUSTED after every attempt of every endpoint timed out.
C11_Witness ==
    /\ genOut.result = "EXHAUSTED"
    /\ \A t \in AttemptSlots : genScript[t] = "timeout"
    /\ Len(genOut.calls) = BudgetSum(NumEndpoints)

\* The messages stored for turn t with the given role.
StoredOf(t, role) ==
    {i \in DOMAIN chat_messages :
        chat_messages[i].turn = t /\ chat_messages[i].role = role}

\* C12: at every moment, and so after the persistence of a turn has ended
\* whichever of its inserts failed, the message store holds at most one user
\* message and at most one model message of the turn.
C12_NoDuplicateWrite ==
    \A t \in 1..MaxSessionTurns :
       /\ Cardinality(StoredOf(t, "user")) <= 1
       /\ Cardinality(StoredOf(t, "model")) <= 1

\* A turn was answered whose user insert failed and whose model insert was
\* stored, and another turn has both its messages stored.
C12_Witness ==
    /\ \E r \in Slots :
          /\ AnsweredTurn(r)
          /\ StoredOf(req[r].turn, "user") = {}
          /\ Cardinality(StoredOf(req[r].turn, "model")) = 1
    /\ \E t \in 1..MaxSessionTurns :
          /\ Cardinality(StoredOf(t, "user")) = 1
          /\ Cardinality(StoredOf(t, "model")) = 1

\* C13: an answered turn has made at most one session creation and at most
\* two attempts of its inserts; a turn of which an insert failed for another
\* reason than a missing session (no insert met a missing session, yet not
\* both messages are stored) has made no session creation and no retry, and
\* ended without persistenceSuccess (Skipped).
C13_OtherFailureSkipped ==
    \A r \in Slots :
       AnsweredTurn(r) =>
          /\ req[r].creates <= 1
          /\ req[r].attempt <= 2
          /\ (~req[r].missing /\ TurnRoles(req[r].turn) # <<"user", "model">>) =>
                /\ req[r].creates = 0
                /\ req[r].attempt = 1
                /\ ~req[r].persistenceSuccess

\* The step changes the title of a stored session.
TitleChanges ==
    \E sid \in DOMAIN chat_sessions \cap DOMAIN chat_sessions' :
       chat_sessions'[sid].title # chat_sessions[sid].title

\* The history holds no user message: nothing but leading model messages.
NoUserMessage(history) == \A i \in DOMAIN history : history[i] # "user"

C15_IncrementKept ==
    /\ [](\A r \in Slots :
            (/\ req[r].pc = "generate"
             /\ req[r].user # NULL
             /\ ~HasAdminSource(req[r].user)
             /\ req[r].user \notin overlap) =>
               StoredCount(req[r].user) = CurrentCount(req[r].usage) + 1)
    /\ [][\A r \in Slots :
            (req[r].pc = "generate" /\ req'[r] # req[r]) =>
               question_usage' = question_usage]_vars

\* A generation has failed, the identity whose requests never overlapped has
\* its whole quota used, and its next request was refused.
C15_Witness ==
    /\ "u1" \notin overlap
    /\ allowed["u1"] = FreeLimit
    /\ StoredCount("u1") = FreeLimit
    /\ \E r \in Slots :
          /\ req[r].pc = "idle"
          /\ req[r].response.status = 500
          /\ req[r].response.error \in {"EXHAUSTED", "REJECTED"}
    /\ \E q \in Slots : req[q].pc = "idle" /\ req[q].response = LimitResponse

====
